---- MODULE Spec2Model ----
(***************************************************************************)
(* LLMeshtastic bridge (src/LLMeshtastic.ino): an ESP32 sketch that sits   *)
(* between an external serial peer (extSerial) and an LLM module           *)
(* (LLMSerial).  After a boot delay it sends one setup request, then for   *)
(* every external command it sends an inference request, collects the      *)
(* streamed answer and forwards it sentence by sentence.                   *)
(*                                                                         *)
(* Time is millis().  The sketch is single threaded; its blocking calls    *)
(* are poll loops (delay(10) per poll).  One action is one iteration of    *)
(* the loop the sketch is in: a poll that reads a line, or a poll that     *)
(* finds no input.  Only when the LLM peer has sent all it sends are the    *)
(* polls that remain until a deadline taken together.  A serial line       *)
(* arrives whole or in two pieces; a poll that finds the first piece alone *)
(* waits in readStringUntil for the rest.  Writing takes no time.          *)
(*                                                                         *)
(* A String is a sequence of one-character strings.  A JSON text inside a  *)
(* line is one element whose name starts with "{" (JsonTexts); JsonValue   *)
(* gives the document it denotes.  The letters used outside JSON texts     *)
(* never start a JSON literal (no digit, quote, t, f, n, [ or -).          *)
(***************************************************************************)
EXTENDS Integers, Sequences, FiniteSets, TLC

\* ------------------------------------------------------------ constants
PollMs == 10                   \* delay(10) in every poll loop
BootDelayMs == 20000           \* loop(): millis() - bootStart >= 20000
SettleMs == 200                \* sendSetupQuery: delay(200)
SetupTimeoutMs == 5000         \* sendSetupQuery: readJsonMessage(5000)
OverallTimeoutMs == 60000      \* loop(): readFullResponse(60000, 15000)
InactivityTimeoutMs == 15000   \* loop(): readFullResponse(60000, 15000)
PacingMs == 1000               \* sendSentences: delay(1000)
NestingLimit == 10             \* deserializeJson: default nesting limit
StreamTimeoutMs == 1000        \* readStringUntil: Stream's default timeout
JsonCapacity == 256            \* loop(): StaticJsonDocument<256>
SlotBytes == 16                \* ArduinoJson 6 on the ESP32: one member of an
                               \* object takes one slot of the document

\* --------------------------------------------------------------- bounds
MaxPeerLines == 3              \* lines the LLM peer sends in one behaviour
MaxCmds == 2                   \* lines the external peer sends
MaxRx == 2                     \* lines waiting in a serial receive buffer
MaxSetupLines == 2             \* the same where the setup exchange runs alone
MaxSilentPolls == 3            \* polls in vain of readJsonMessage and
                               \* readFullResponse in a behaviour while a line
                               \* of the LLM peer is to come
MaxIdlePasses == 3             \* passes of loop() in vain in a behaviour
MaxSessionLines == 1           \* lines the LLM peer sends where boot, setup
                               \* and commands run with a peer that answers
                               \* the setup request only
LongCommandLen == 150          \* length of the long external line
MaxCollectorPolls == 9         \* polls in vain where readFullResponse runs
                               \* alone: all that its deadlines admit
MaxSplitLines == 1             \* lines that arrive in pieces in a behaviour
MaxLineDelayMs == 2            \* ms until a line in pieces is complete
MaxTextLen == 5                \* length of a text handed to sendSentences alone

\* -------------------------------------------------------------- strings
Min(a, b) == IF a < b THEN a ELSE b
Max(a, b) == IF a > b THEN a ELSE b

\* isspace(): blank, tab, line feed, vertical tab (written "\\v": TLA+ has
\* no escape for it), form feed and carriage return.
IsSpace(c) == c \in {" ", "\t", "\n", "\\v", "\f", "\r"}

\* String::trim(): drop leading and trailing whitespace.
RECURSIVE TrimLeft(_)
TrimLeft(s) ==
    IF Len(s) > 0 /\ IsSpace(Head(s)) THEN TrimLeft(Tail(s)) ELSE s

RECURSIVE TrimRight(_)
TrimRight(s) ==
    IF Len(s) > 0 /\ IsSpace(s[Len(s)])
    THEN TrimRight(SubSeq(s, 1, Len(s) - 1))
    ELSE s

Trim(s) == TrimRight(TrimLeft(s))

\* String::substring(left) and substring(left, right), 0-based, right exclusive.
SubstringTo(s, left, right) ==
    LET l == Min(left, right)
        r == Min(Max(left, right), Len(s))
    IN  IF l >= Len(s) THEN <<>> ELSE SubSeq(s, l + 1, r)

Substring(s, left) == SubstringTo(s, left, Len(s))

\* String::startsWith(prefix).
StartsWith(s, p) == Len(s) >= Len(p) /\ SubSeq(s, 1, Len(p)) = p

\* String::indexOf(pattern, from): 0-based index of the first occurrence at
\* or after from, -1 when there is none.
IndexOfFrom(s, p, from) ==
    LET hits == {i \in from .. (Len(s) - Len(p)) :
                    SubSeq(s, i + 1, i + Len(p)) = p}
    IN  IF hits = {} THEN -1
        ELSE CHOOSE i \in hits : \A j \in hits : i <= j

\* ----------------------------------------------------------------- JSON
\* ArduinoJson variants.
JNull == [t |-> "null"]
JStr(s) == [t |-> "str", v |-> s]
JInt(i) == [t |-> "int", v |-> i]
JFloat(m, e) == [t |-> "float", v |-> m, e |-> e]     \* m * 10^e
JBool(b) == [t |-> "bool", v |-> b]
JObj(f) == [t |-> "obj", v |-> f]

\* Strings of the protocol.
RequestId == <<"l", "l", "m", "_", "0", "0", "1">>
OtherId == <<"l", "l", "m", "_", "0", "0", "2">>
DefaultWorkId == <<"l", "l", "m", "_", "w", "o", "r", "k", "_", "i", "d">>
SetupWorkId == <<"l", "l", "m">>
PeerWorkId == <<"l", "l", "m", ".", "1">>
Hello == <<"H", "e", "l", "l", "o">>
World == <<" ", "w", "o", "r", "l", "d">>
Dot == <<".">>

\* n objects nested in each other.
RECURSIVE Nested(_)
Nested(n) == IF n = 0 THEN JInt(0) ELSE JObj([a |-> Nested(n - 1)])

\* The JSON texts the peer's lines are built from, and the documents they
\* denote.
JsonTexts ==
    {"{ok}", "{err0}", "{err}", "{badid}", "{noid}", "{nowork}", "{emptywork}",
     "{hello}", "{world}", "{dotfin}", "{nodelta}", "{deep}", "{two}",
     "{gapfin}", "{errstr}", "{errhalf}", "{finstr}"}

JsonValue(j) ==
    CASE j = "{ok}" ->
            JObj([request_id |-> JStr(RequestId), work_id |-> JStr(PeerWorkId)])
      [] j = "{err0}" ->
            JObj([request_id |-> JStr(RequestId), work_id |-> JStr(PeerWorkId),
                  error |-> JObj([code |-> JInt(0)])])
      [] j = "{err}" ->
            JObj([request_id |-> JStr(RequestId), work_id |-> JStr(PeerWorkId),
                  error |-> JObj([code |-> JInt(-4)])])
      [] j = "{badid}" ->
            JObj([request_id |-> JStr(OtherId), work_id |-> JStr(PeerWorkId)])
      [] j = "{noid}" -> JObj([work_id |-> JStr(PeerWorkId)])
      [] j = "{nowork}" -> JObj([request_id |-> JStr(RequestId)])
      [] j = "{emptywork}" ->
            JObj([request_id |-> JStr(RequestId), work_id |-> JStr(<<>>)])
      [] j = "{hello}" -> JObj([data |-> JObj([delta |-> JStr(Hello)])])
      [] j = "{world}" -> JObj([data |-> JObj([delta |-> JStr(World)])])
      [] j = "{dotfin}" ->
            JObj([data |-> JObj([delta |-> JStr(Dot), finish |-> JBool(TRUE)])])
      [] j = "{nodelta}" ->
            JObj([data |-> JObj([index |-> JInt(0), finish |-> JBool(FALSE)])])
      [] j = "{deep}" -> Nested(NestingLimit + 1)
      [] j = "{two}" ->
            JObj([data |-> JObj([delta |-> JStr(<<"a", ".", " ", "b">>)])])
      [] j = "{gapfin}" ->
            JObj([data |-> JObj([delta |-> JStr(<<".", " ", " ">>),
                                 finish |-> JBool(TRUE)])])
      [] j = "{errstr}" ->
            JObj([request_id |-> JStr(RequestId), work_id |-> JStr(PeerWorkId),
                  error |-> JObj([code |-> JStr(<<"5">>)])])
      [] j = "{errhalf}" ->
            JObj([request_id |-> JStr(RequestId), work_id |-> JStr(PeerWorkId),
                  error |-> JObj([code |-> JFloat(5, -1)])])
      [] j = "{finstr}" ->
            JObj([data |-> JObj([delta |-> JStr(Dot),
                                 finish |-> JStr(<<"t", "r", "u", "e">>)])])

IsJsonText(c) == c \in JsonTexts

\* A character position holds '{': a literal brace or the start of a JSON text.
IsBrace(c) == c = "{" \/ IsJsonText(c)

\* String::indexOf('{').
IndexOfBrace(s) ==
    LET hits == {i \in 0 .. (Len(s) - 1) : IsBrace(s[i + 1])}
    IN  IF hits = {} THEN -1
        ELSE CHOOSE i \in hits : \A j \in hits : i <= j

\* Nesting depth of a document.
RECURSIVE Depth(_)
Depth(j) ==
    IF j.t # "obj" THEN 0
    ELSE LET ds == {Depth(j.v[k]) : k \in DOMAIN j.v}
         IN  1 + (CHOOSE d \in ds : \A e \in ds : e <= d)

\* deserializeJson(doc, input): skips leading whitespace and reads one JSON
\* value; what follows the value is not looked at.
DeserializeJson(input) ==
    LET s == TrimLeft(input)
    IN  IF Len(s) = 0 THEN [error |-> "EmptyInput", doc |-> JNull]
        ELSE IF ~IsJsonText(s[1]) THEN [error |-> "InvalidInput", doc |-> JNull]
        ELSE IF Depth(JsonValue(s[1])) > NestingLimit
             THEN [error |-> "TooDeep", doc |-> JNull]
        ELSE [error |-> "Ok", doc |-> JsonValue(s[1])]

\* doc[key] and JsonObject::containsKey(key).
ContainsKey(o, k) == o.t = "obj" /\ k \in DOMAIN o.v
Member(o, k) == IF ContainsKey(o, k) THEN o.v[k] ELSE JNull

\* Conversion of a variant to JsonObject: null unless it is an object.
AsObject(x) == IF x.t = "obj" THEN x ELSE JNull

\* as<const char*>(): the string, or a null pointer.
AsCStr(x) == IF x.t = "str" THEN [null |-> FALSE, s |-> x.v]
             ELSE [null |-> TRUE, s |-> <<>>]

\* Decimal digits and the number a run of them denotes.
Digits == <<"0", "1", "2", "3", "4", "5", "6", "7", "8", "9">>
IsDigit(c) == \E d \in 1 .. 10 : Digits[d] = c
DigitValue(c) == (CHOOSE d \in 1 .. 10 : Digits[d] = c) - 1

RECURSIVE NumberOf(_)
NumberOf(ds) ==
    IF Len(ds) = 0 THEN 0
    ELSE 10 * NumberOf(SubSeq(ds, 1, Len(ds) - 1)) + DigitValue(ds[Len(ds)])

\* The index after the run of digits of s that starts at i (1-based).
RECURSIVE DigitsEnd(_, _)
DigitsEnd(s, i) ==
    IF i <= Len(s) /\ IsDigit(s[i]) THEN DigitsEnd(s, i + 1) ELSE i

RECURSIVE Pow10(_)
Pow10(n) == IF n = 0 THEN 1 ELSE 10 * Pow10(n - 1)

\* m * 10^e cut to an integer (toward zero), as the conversion of a
\* floating-point value to int does.  The numbers of the model fit an int.
Truncated(m, e) ==
    LET mag == IF m < 0 THEN 0 - m ELSE m
        cut == IF e >= 0 THEN mag * Pow10(e) ELSE mag \div Pow10(0 - e)
    IN  IF m < 0 THEN 0 - cut ELSE cut

\* parseNumber of ArduinoJson: sign, digits, fraction, exponent, and
\* nothing else; the value as mantissa and decimal exponent.
ParseNumber(s) ==
    LET neg == Len(s) > 0 /\ s[1] = "-"
        i0 == IF Len(s) > 0 /\ s[1] \in {"-", "+"} THEN 2 ELSE 1
        i1 == DigitsEnd(s, i0)
        hasDot == i1 <= Len(s) /\ s[i1] = "."
        i2 == IF hasDot THEN DigitsEnd(s, i1 + 1) ELSE i1
        hasExp == i2 <= Len(s) /\ s[i2] \in {"e", "E"}
        signed == hasExp /\ i2 + 1 <= Len(s) /\ s[i2 + 1] \in {"-", "+"}
        i3 == IF hasExp THEN (IF signed THEN i2 + 2 ELSE i2 + 1) ELSE i2
        i4 == IF hasExp THEN DigitsEnd(s, i3) ELSE i2
        mant == NumberOf(SubSeq(s, i0, i1 - 1)
                         \o (IF hasDot THEN SubSeq(s, i1 + 1, i2 - 1)
                             ELSE <<>>))
        exp == IF hasExp
               THEN (IF signed /\ s[i2 + 1] = "-" THEN 0 - 1 ELSE 1)
                    * NumberOf(SubSeq(s, i3, i4 - 1))
               ELSE 0
    IN  [valid |-> /\ i0 <= Len(s)
                   /\ (IsDigit(s[i0]) \/ s[i0] = ".")
                   /\ i4 = Len(s) + 1,
         m |-> IF neg THEN 0 - mant ELSE mant,
         e |-> exp - (IF hasDot THEN i2 - i1 - 1 ELSE 0)]

\* as<int>() of ArduinoJson 6: an integer that fits, a float cut toward
\* zero, 1 or 0 for a bool, the number a string spells, 0 otherwise.
AsInt(x) ==
    CASE x.t = "int" -> Truncated(x.v, 0)
      [] x.t = "float" -> Truncated(x.v, x.e)
      [] x.t = "bool" -> IF x.v THEN 1 ELSE 0
      [] x.t = "str" -> LET n == ParseNumber(x.v)
                        IN  IF n.valid THEN Truncated(n.m, n.e) ELSE 0
      [] OTHER -> 0

\* as<bool>() of ArduinoJson 6 (6.15 and later): the bool, a number that is
\* not 0, false for null, true for a string, an object or an array.
AsBool(x) ==
    CASE x.t = "bool" -> x.v
      [] x.t \in {"int", "float"} -> x.v # 0
      [] x.t = "null" -> FALSE
      [] OTHER -> TRUE

\* String(const char*): empty for a null pointer.
StringOf(p) == IF p.null THEN <<>> ELSE p.s

\* ------------------------------------------------- functions of the sketch
\* Candidate without the cut at the first '{': the trimmed line is parsed
\* from the brace on but returned whole.
CandidateKeepsPrefix(line) ==
    LET trimmed == Trim(line)
        idx == IndexOfBrace(trimmed)
    IN  IF idx >= 0 /\ DeserializeJson(Substring(trimmed, idx)).error = "Ok"
        THEN [found |-> TRUE, text |-> trimmed]
        ELSE [found |-> FALSE, text |-> <<>>]

\* readJsonMessage, lines 42-51: what one received line yields.  The line is
\* trimmed and cut at its first '{'; the rest is returned when it
\* deserializes, and the line is dropped otherwise.
Candidate(line) ==
    LET trimmed == Trim(line)
        idx == IndexOfBrace(trimmed)
        candidate == Substring(trimmed, idx)
    IN  IF idx >= 0 /\ DeserializeJson(candidate).error = "Ok"
        THEN [found |-> TRUE, text |-> candidate]
        ELSE [found |-> FALSE, text |-> <<>>]

\* sendSetupQuery, lines 79-95: the verdict on the response text and the
\* work id it carries.
SetupOutcome(response) ==
    LET parsed == DeserializeJson(Trim(response))
        respRequestId == AsCStr(Member(parsed.doc, "request_id"))
        errorObj == AsObject(Member(parsed.doc, "error"))
        workId == AsCStr(Member(parsed.doc, "work_id"))
        failure == [ok |-> FALSE, workId |-> <<>>]
    IN  IF parsed.error # "Ok" THEN failure
        ELSE IF respRequestId.null \/ respRequestId.s # RequestId THEN failure
        ELSE IF ContainsKey(errorObj, "code")
                /\ AsInt(Member(errorObj, "code")) # 0 THEN failure
        ELSE IF workId.null THEN failure
        ELSE [ok |-> TRUE, workId |-> StringOf(workId)]

\* FoldLine with the finish flag tested before the delta is appended, so
\* that the finishing frame's own delta is lost.
FoldLineDropsFinishingDelta(line, acc) ==
    LET trimmed == Trim(line)
        parsed == DeserializeJson(trimmed)
        dataObj == AsObject(Member(parsed.doc, "data"))
        fin == ContainsKey(dataObj, "finish") /\ AsBool(Member(dataObj, "finish"))
        delta == IF ContainsKey(dataObj, "delta") /\ ~fin
                 THEN StringOf(AsCStr(Member(dataObj, "delta")))
                 ELSE <<>>
    IN  IF Len(trimmed) = 0
        THEN [acc |-> acc, finished |-> FALSE, skipped |-> FALSE]
        ELSE IF parsed.error # "Ok"
        THEN [acc |-> acc, finished |-> FALSE, skipped |-> TRUE]
        ELSE [acc |-> acc \o delta, finished |-> fin, skipped |-> FALSE]

\* readFullResponse, lines 112-125: one received line folded into the
\* response.  skipped: the line left the iteration by `continue`, before
\* delay(10).
FoldLine(line, acc) ==
    LET trimmed == Trim(line)
        parsed == DeserializeJson(trimmed)
        dataObj == AsObject(Member(parsed.doc, "data"))
        delta == IF ContainsKey(dataObj, "delta")
                 THEN StringOf(AsCStr(Member(dataObj, "delta")))
                 ELSE <<>>
    IN  IF Len(trimmed) = 0
        THEN [acc |-> acc, finished |-> FALSE, skipped |-> FALSE]
        ELSE IF parsed.error # "Ok"
        THEN [acc |-> acc, finished |-> FALSE, skipped |-> TRUE]
        ELSE [acc |-> acc \o delta,
              finished |-> ContainsKey(dataObj, "finish")
                           /\ AsBool(Member(dataObj, "finish")),
              skipped |-> FALSE]

\* CleanCommand without the removal of the "CMD:" marker.
CleanCommandKeepsMarker(cmd) ==
    LET stripped == Trim(cmd)
        colonIndex == IndexOfFrom(stripped, <<":">>, 0)
    IN  IF colonIndex # -1
        THEN Trim(Substring(stripped, colonIndex + 1))
        ELSE Trim(stripped)

\* cleanCommand, lines 144-157.
CleanCommand(cmd) ==
    LET trimmed == Trim(cmd)
        stripped == IF StartsWith(trimmed, <<"C", "M", "D", ":">>)
                    THEN Trim(Substring(trimmed, 4))
                    ELSE trimmed
        colonIndex == IndexOfFrom(stripped, <<":">>, 0)
    IN  IF colonIndex # -1
        THEN Trim(Substring(stripped, colonIndex + 1))
        ELSE Trim(stripped)

\* SentenceStep without the period at the end of a unit.
SentenceStepDropsPeriod(txt, from) ==
    LET index == IndexOfFrom(txt, <<".", " ">>, from)
    IN  IF index = -1
        THEN [sentence |-> Trim(Substring(txt, from)), next |-> from,
              last |-> TRUE]
        ELSE [sentence |-> Trim(SubstringTo(txt, from, index)),
              next |-> index + 2, last |-> FALSE]

\* SentenceStep cutting at every '.', followed by a blank or not.
SentenceStepCutsAtPeriod(txt, from) ==
    LET index == IndexOfFrom(txt, <<".">>, from)
    IN  IF index = -1
        THEN [sentence |-> Trim(Substring(txt, from)), next |-> from,
              last |-> TRUE]
        ELSE [sentence |-> Trim(SubstringTo(txt, from, index + 1)),
              next |-> index + 1, last |-> FALSE]

\* sendSentences, lines 168-187: one iteration of its loop at startIndex.
\* sentence is the trimmed unit (written when not empty), next the new
\* startIndex, last whether the iteration ends the loop by break.
SentenceStep(txt, from) ==
    LET index == IndexOfFrom(txt, <<".", " ">>, from)
    IN  IF index = -1
        THEN [sentence |-> Trim(Substring(txt, from)), next |-> from,
              last |-> TRUE]
        ELSE [sentence |-> Trim(SubstringTo(txt, from, index + 1)),
              next |-> index + 2, last |-> FALSE]

\* sendSentences, lines 166-188, as a whole: the units it writes for txt.
RECURSIVE SendSentencesFrom(_, _)
SendSentencesFrom(txt, from) ==
    IF from >= Len(txt) THEN <<>>
    ELSE LET step == SentenceStep(txt, from)
             written == IF Len(step.sentence) > 0 THEN <<step.sentence>>
                        ELSE <<>>
         IN  IF step.last THEN written
             ELSE written \o SendSentencesFrom(txt, step.next)

SendSentences(txt) == SendSentencesFrom(txt, 0)

\* The request envelopes (lines 60-75 and 242-254).
SetupRequest ==
    [request_id |-> RequestId, work_id |-> SetupWorkId, action |-> "setup",
     object |-> "llm.setup",
     data |-> [model |-> "qwen2.5-0.5B-prefill-20e",
               response_format |-> "llm.utf-8.stream",
               input |-> "llm.utf-8.stream",
               enoutput |-> TRUE,
               max_token_len |-> 1023,
               prompt |-> "You are a knowledgeable assistant capable of answering various questions and providing information."]]

\* A member the document could not store is serialized as null.
JsonNull == <<"null">>

\* loop(), lines 242-253: the request as serializeJson writes it.  The
\* document has JsonCapacity bytes; every member takes a slot of SlotBytes
\* when it is added, and a String (llmWorkId, command) is copied into the
\* document with its terminating zero, the literals are not.  The members
\* are added in the order of the code.  A member whose slot does not fit
\* is left out; a String that does not fit leaves its member null.  The
\* five members of the root and the session ids of the model always fit.
InferenceRequest(workId, command) ==
    LET root == 5 * SlotBytes + Len(workId) + 1
        deltaSlot == root + SlotBytes
        stored == deltaSlot + Len(command) + 1 <= JsonCapacity
        afterDelta == IF stored THEN deltaSlot + Len(command) + 1
                      ELSE deltaSlot
        hasIndex == afterDelta + SlotBytes <= JsonCapacity
        hasFinish == afterDelta + 2 * SlotBytes <= JsonCapacity
        delta == IF stored THEN command ELSE JsonNull
        data == IF hasFinish
                THEN [delta |-> delta, index |-> 0, finish |-> TRUE]
                ELSE IF hasIndex
                THEN [delta |-> delta, index |-> 0]
                ELSE [delta |-> delta]
    IN  [request_id |-> RequestId, work_id |-> workId, action |-> "inference",
         object |-> "llm.utf-8.stream", data |-> data]

\* The polls readJsonMessage makes in vain before its timeout (lines 38-56):
\* with this many, no poll of the setup exchange is left out.
SetupPolls == SetupTimeoutMs \div PollMs

\* The first poll of a loop polling every PollMs from t0 that falls at or
\* after the instant d.
FirstPollFrom(t0, d) ==
    IF d <= t0 THEN t0 ELSE t0 + PollMs * ((d - t0 + PollMs - 1) \div PollMs)

\* ---------------------------------------------------------------- state
VARIABLES
    now,                \* millis()
    pc,                 \* where the sketch is: "boot" (loop() before bootComplete),
                        \* "setup" (readJsonMessage called by sendSetupQuery),
                        \* "main" (loop() at line 232), "collect"
                        \* (readFullResponse), "emit" (sendSentences),
                        \* "sent" (loop() after sendSentences)
    bootComplete, bootStart, llmWorkId,                 \* globals, lines 16-18
    llmRx, extRx,       \* whole lines received and not yet read, per port
    llmPart, extPart,   \* the line of which only the first piece has arrived
                        \* so far, per port; it is behind the whole lines
    llmTx, extTx,       \* what the sketch wrote to LLMSerial and to extSerial
    rjStart,            \* readJsonMessage: startTime
    startTime, lastReceiveTime, completeResponse, finished,
    overallTimeout, inactivityTimeout,                  \* readFullResponse
    text, startIndex,   \* sendSentences
    \* the environment and the history the properties speak of
    peerKinds,          \* the lines the LLM peer chooses from
    peerSplits,         \* those of them it may send in two pieces
    extSplits,          \* the lines the external peer may send in two pieces
    silentCap,          \* how many polls in vain readJsonMessage and
                        \* readFullResponse have in the behaviour while a
                        \* line of the LLM peer is still to come
    idleCap,            \* how many passes in vain loop() has in the
                        \* behaviour while an external line is to come
    peerLimit,          \* how many lines the LLM peer sends; the lines sent
                        \* so far once it has fallen silent for good
    splitSent,          \* lines sent in pieces so far
    peerSent, extSent,  \* lines sent so far by each peer
    silent,             \* polls in vain so far while a line of the LLM
                        \* peer was to come
    idle,               \* passes of loop() in vain so far
    lastArrival,        \* when the first bytes of the last line of the LLM
                        \* peer arrived during the present call of
                        \* readFullResponse (its start when none has)
    lastByte,           \* when the last byte of the LLM peer arrived during
                        \* the present call of readFullResponse
    rjRead,             \* lines readJsonMessage read in this call
    setupResponse,      \* what readJsonMessage returned to sendSetupQuery
    setupRet,           \* sendSetupQuery: "pending", "ok" or "failed"
    consumed,           \* lines readFullResponse read in this call
    exitReason,         \* how readFullResponse ended: "finish", "inactivity",
                        \* "overall"; "none" while it runs
    staleAtStart,       \* lines of the LLM peer that were waiting unread when
                        \* the request of the present cycle was sent
    extRead,            \* external lines read by loop()
    extLine             \* the last of them, as readStringUntil returned it

session == <<bootComplete, bootStart, llmWorkId>>
llmPort == <<llmRx, llmPart>>
extPort == <<extRx, extPart>>
reader == <<rjStart, rjRead, setupResponse, setupRet>>
collector == <<startTime, lastReceiveTime, completeResponse, finished,
               overallTimeout, inactivityTimeout, consumed, exitReason,
               staleAtStart>>
segmenter == <<text, startIndex>>
peers ==
    <<peerKinds, peerSplits, extSplits, silentCap, idleCap, peerLimit,
      splitSent, peerSent, extSent>>
arrivals == <<lastArrival, lastByte>>
polls == <<silent, idle>>
commands == <<extRead, extLine>>
vars == <<now, pc, session, llmPort, extPort, llmTx, extTx, reader, collector,
          segmenter, peers, arrivals, polls, commands>>

\* ------------------------------------------------------- the environment
\* The lines of the LLM peer, by name; "\r" where the peer ends its line
\* with CR LF.
LineOf(kind) ==
    CASE kind = "ok" -> <<"{ok}">>
      [] kind = "err0" -> <<"{err0}">>
      [] kind = "err" -> <<"{err}">>
      [] kind = "errstr" -> <<"{errstr}">>
      [] kind = "errhalf" -> <<"{errhalf}">>
      [] kind = "badid" -> <<"{badid}">>
      [] kind = "noid" -> <<"{noid}">>
      [] kind = "nowork" -> <<"{nowork}">>
      [] kind = "emptywork" -> <<"{emptywork}">>
      [] kind = "prefixed" -> <<" ", "l", "o", "g", ":", " ", "{ok}", " ">>
      [] kind = "deep" -> <<"l", "o", "g", " ", "{deep}">>
      [] kind = "trailing" -> <<"{ok}", " ", "l", "o", "g">>
      [] kind = "broken" -> <<"{", "o", "k">>
      [] kind = "noise" -> <<"l", "o", "g">>
      [] kind = "blank" -> <<" ", "\r">>
      [] kind = "hello" -> <<"{hello}">>
      [] kind = "loghello" -> <<"l", "o", "g", " ", "{hello}">>
      [] kind = "world" -> <<"{world}">>
      [] kind = "dotfin" -> <<"{dotfin}", "\r">>
      [] kind = "finstr" -> <<"{finstr}">>
      [] kind = "nodelta" -> <<"{nodelta}">>
      [] kind = "two" -> <<"{two}">>
      [] kind = "gapfin" -> <<"{gapfin}">>

\* What the peer chooses from: in the whole bridge, in the setup exchange
\* alone, in response collection alone, in the inference cycles alone.
BridgeKinds == {"ok", "dotfin"}
SetupKinds == {"ok", "err0", "err", "errstr", "errhalf", "badid", "noid",
               "nowork", "emptywork", "prefixed", "deep", "trailing", "broken",
               "noise", "blank"}
StreamKinds == {"hello", "loghello", "world", "dotfin", "finstr", "nodelta",
                "noise", "blank"}
PacingKinds == {"two", "gapfin"}

\* The lines of the external peer.
ExtLines ==
    {<<"C", "M", "D", ":", "d", ":", "o", "n", "\r">>, <<"C", "M", "D", ":">>}

\* A line of LongCommandLen letters, and the lines the external peer
\* chooses from where the LLM peer answers the setup request only.
LongCommand == [i \in 1 .. LongCommandLen |-> "a"]
SessionLines == {<<"C", "M", "D", ":", "d", ":", "o", "n", "\r">>, LongCommand}

\* "CMD:device1:Turn on the light", "Turn on the light", "12:30 meeting".
CmdDeviceLight ==
    <<"C", "M", "D", ":", "d", "e", "v", "i", "c", "e", "1", ":", "T", "u",
      "r", "n", " ", "o", "n", " ", "t", "h", "e", " ", "l", "i", "g", "h",
      "t">>
PlainLight ==
    <<"T", "u", "r", "n", " ", "o", "n", " ", "t", "h", "e", " ", "l", "i",
      "g", "h", "t">>
Meeting ==
    <<"1", "2", ":", "3", "0", " ", "m", "e", "e", "t", "i", "n", "g">>

\* The lines the external peer chooses from when loop() runs with a
\* silent LLM peer: with and without the "CMD:" marker, with no, one and
\* several ':', blank, with blanks, tabs and a carriage return around the
\* text.
CommandLines ==
    {CmdDeviceLight, PlainLight, Meeting,
     <<" ">>,
     <<"\r">>,
     <<"C", "M", "D", ":">>,
     <<"C", "M", "D", ":", "d", "e", "v", "i", "c", "e", "1", ":">>,
     <<" ", "C", "M", "D", ":", " ", "a", " ">>,
     <<"a", ":", "b", ":", "c">>,
     <<"C", "M", "D", ":", "C", "M", "D", ":", "a">>,
     <<":">>,
     <<"C", "M", "D", "a">>,
     <<" ", "a", " ", ":", " ", "b", " ">>,
     <<"C", "M", "D", ":", " ", ":", "a">>,
     <<"C", "M", "D", " ", ":", "a">>,
     <<"\t", "C", "M", "D", ":", "a", ":", "\t", "b", "\r">>}

\* The lines a peer may send in two pieces: in the whole bridge, in the
\* setup exchange alone, in response collection alone, in the inference
\* cycles alone, with the commands alone.
BridgeSplits == {"dotfin"}
SetupSplits == {"prefixed", "trailing"}
StreamSplits == {"hello", "dotfin"}
PacingSplits == {"gapfin"}
ExtSplits == {<<"C", "M", "D", ":", "d", ":", "o", "n", "\r">>}
CommandSplits == {CmdDeviceLight, <<"a", ":", "b", ":", "c">>}

\* The timeouts readFullResponse is called with when it runs alone.
CollectorTimeouts == {<<60, 10>>, <<60, 30>>, <<90, 30>>}

\* The texts sendSentences is given when it runs alone: every text of
\* at most MaxTextLen letters, periods and blanks, and "Hi there. How are
\* you. Fine.".
HiThere ==
    <<"H", "i", " ", "t", "h", "e", "r", "e", ".", " ", "H", "o", "w", " ",
      "a", "r", "e", " ", "y", "o", "u", ".", " ", "F", "i", "n", "e", ".">>

Texts ==
    {HiThere} \cup UNION {[1 .. n -> {"a", ".", " "}] : n \in 0 .. MaxTextLen}

\* No line is in pieces.
NoPart == [line |-> <<>>, read |-> FALSE]

\* The first piece of a line that arrives in two: the line without its last
\* character.  Of a line that ends in a JSON text the piece holds the text
\* without its closing brace, which is just an opening '{' to
\* deserializeJson.
Piece(line) ==
    IF Len(line) = 0 THEN <<>>
    ELSE IF IsJsonText(line[Len(line)])
    THEN SubSeq(line, 1, Len(line) - 1) \o <<"{">>
    ELSE SubSeq(line, 1, Len(line) - 1)

\* The second piece: the last character.
Rest(line) ==
    IF IsJsonText(line[Len(line)]) THEN <<"}">> ELSE <<line[Len(line)]>>

\* How long after the call of readStringUntil the rest of a line in pieces
\* arrives, when it arrives before the call gives up: within
\* MaxLineDelayMs, or later than StreamTimeoutMs when more bytes of the
\* line kept coming, each less than StreamTimeoutMs after the one before.
TrickleMs == 1500
LineDelays == (1 .. MaxLineDelayMs) \cup {TrickleMs}

\* Stream::available() > 0: bytes wait in the receive buffer.
Available(rx, part) == Len(rx) > 0 \/ (part # NoPart /\ ~part.read)

\* Stream::readStringUntil('\n') on a port with bytes waiting: the line it
\* returns, how long the call takes, and what it leaves in the port.  A
\* whole line is returned at once.  With a first piece alone it waits for
\* the rest; when no byte comes for StreamTimeoutMs it returns the piece.
Reads(rx, part) ==
    IF Len(rx) > 0
    THEN {[line |-> Head(rx), wait |-> 0, rx |-> Tail(rx), part |-> part,
           whole |-> TRUE]}
    ELSE IF part # NoPart /\ ~part.read
    THEN {[line |-> part.line, wait |-> d, rx |-> <<>>, part |-> NoPart,
           whole |-> TRUE] : d \in LineDelays}
         \cup {[line |-> Piece(part.line), wait |-> StreamTimeoutMs,
                rx |-> <<>>, part |-> [part EXCEPT !.read = TRUE],
                whole |-> FALSE]}
    ELSE {}

\* The LLM peer sends a line.
PeerSend(kind) ==
    /\ kind \in peerKinds
    /\ peerSent < peerLimit
    /\ llmPart = NoPart
    /\ Len(llmRx) < MaxRx
    /\ llmRx' = Append(llmRx, LineOf(kind))
    /\ peerSent' = peerSent + 1
    /\ lastArrival' = IF pc = "collect" THEN now ELSE lastArrival
    /\ lastByte' = IF pc = "collect" THEN now ELSE lastByte
    /\ UNCHANGED <<now, pc, session, llmPart, extPort, llmTx, extTx, reader,
                   collector, segmenter, peerKinds, peerSplits, extSplits,
                   silentCap, idleCap, peerLimit, splitSent, extSent, polls,
                   commands>>

\* The LLM peer sends the first piece of a line.
PeerSendPart(kind) ==
    /\ kind \in peerSplits
    /\ peerSent < peerLimit
    /\ splitSent < MaxSplitLines
    /\ splitSent' = splitSent + 1
    /\ llmPart = NoPart
    /\ Len(llmRx) < MaxRx
    /\ Len(Piece(LineOf(kind))) > 0
    /\ llmPart' = [line |-> LineOf(kind), read |-> FALSE]
    /\ peerSent' = peerSent + 1
    /\ lastArrival' = IF pc = "collect" THEN now ELSE lastArrival
    /\ lastByte' = IF pc = "collect" THEN now ELSE lastByte
    /\ UNCHANGED <<now, pc, session, llmRx, extPort, llmTx, extTx, reader,
                   collector, segmenter, peerKinds, peerSplits, extSplits,
                   silentCap, idleCap, peerLimit, extSent, polls,
                   commands>>

\* The LLM peer sends the rest of the line: it completes the line when the
\* first piece still waits, and is a line of its own when readStringUntil
\* has returned the piece.
PeerSendRest ==
    /\ llmPart # NoPart
    /\ Len(llmRx) < MaxRx
    /\ llmRx' = Append(llmRx, IF llmPart.read THEN Rest(llmPart.line)
                              ELSE llmPart.line)
    /\ llmPart' = NoPart
    /\ lastArrival' = IF pc = "collect" /\ llmPart.read THEN now
                      ELSE lastArrival
    /\ lastByte' = IF pc = "collect" THEN now ELSE lastByte
    /\ UNCHANGED <<now, pc, session, extPort, llmTx, extTx, reader, collector,
                   segmenter, peers, polls,
                   commands>>

\* The external peer sends a line.
ExtSend(line) ==
    /\ extSent < MaxCmds
    /\ extPart = NoPart
    /\ Len(extRx) < MaxRx
    /\ extRx' = Append(extRx, line)
    /\ extSent' = extSent + 1
    /\ UNCHANGED <<now, pc, session, llmPort, extPart, llmTx, extTx, reader,
                   collector, segmenter, peerKinds, peerSplits, extSplits,
                   silentCap, idleCap, peerLimit, splitSent, peerSent,
                   arrivals, polls, commands>>

\* The external peer sends the first piece of a line.
ExtSendPart(line) ==
    /\ line \in extSplits
    /\ extSent < MaxCmds
    /\ splitSent < MaxSplitLines
    /\ splitSent' = splitSent + 1
    /\ extPart = NoPart
    /\ Len(extRx) < MaxRx
    /\ Len(Piece(line)) > 0
    /\ extPart' = [line |-> line, read |-> FALSE]
    /\ extSent' = extSent + 1
    /\ UNCHANGED <<now, pc, session, llmPort, extRx, llmTx, extTx, reader,
                   collector, segmenter, peerKinds, peerSplits, extSplits,
                   silentCap, idleCap, peerLimit, peerSent, arrivals, polls,
                   commands>>

\* The external peer sends the rest of the line.
ExtSendRest ==
    /\ extPart # NoPart
    /\ Len(extRx) < MaxRx
    /\ extRx' = Append(extRx, IF extPart.read THEN Rest(extPart.line)
                              ELSE extPart.line)
    /\ extPart' = NoPart
    /\ UNCHANGED <<now, pc, session, llmPort, llmTx, extTx, reader, collector,
                   segmenter, peers, arrivals, polls,
                   commands>>

\* A line of the LLM peer, of the external peer, may still arrive.
PeerToCome == peerSent < peerLimit \/ llmPart # NoPart
ExtToCome == extSent < MaxCmds \/ extPart # NoPart

\* ----------------------------------------------------------------- boot
\* loop(), lines 217-228, before the boot delay is over: it returns at once
\* and is called again, until the delay is over.
LoopBootWait ==
    /\ pc = "boot"
    /\ ~bootComplete
    /\ now - bootStart < BootDelayMs
    /\ now' = bootStart + BootDelayMs
    /\ UNCHANGED <<pc, session, llmPort, extPort, llmTx, extTx, reader,
                   collector, segmenter, peers, arrivals, polls,
                   commands>>

\* LoopSetup without the boot delay.
LoopSetupNoDelay ==
    /\ pc = "boot"
    /\ ~bootComplete
    /\ bootComplete' = TRUE
    /\ llmTx' = Append(llmTx, SetupRequest)
    /\ now' = now + SettleMs
    /\ rjStart' = now + SettleMs
    /\ rjRead' = <<>>
    /\ pc' = "setup"
    /\ UNCHANGED <<bootStart, llmWorkId, llmPort, extPort, extTx,
                   setupResponse, setupRet, collector, segmenter, peers,
                   arrivals, polls, commands>>

\* loop(), lines 217-220, and sendSetupQuery, lines 60-78, up to the first
\* poll of readJsonMessage.
LoopSetup ==
    /\ pc = "boot"
    /\ ~bootComplete
    /\ now - bootStart >= BootDelayMs
    /\ bootComplete' = TRUE
    /\ llmTx' = Append(llmTx, SetupRequest)
    /\ now' = now + SettleMs
    /\ rjStart' = now + SettleMs
    /\ rjRead' = <<>>
    /\ pc' = "setup"
    /\ UNCHANGED <<bootStart, llmWorkId, llmPort, extPort, extTx,
                   setupResponse, setupRet, collector, segmenter, peers,
                   arrivals, polls, commands>>

\* SetupReturn storing the work id before the checks, so that a failed setup
\* overwrites llmWorkId too.
SetupReturnWritesOnFailure(response) ==
    LET outcome == SetupOutcome(response)
    IN  /\ setupResponse' = response
        /\ setupRet' = IF outcome.ok THEN "ok" ELSE "failed"
        /\ llmWorkId' = outcome.workId
        /\ pc' = "main"
        /\ UNCHANGED polls
        /\ UNCHANGED <<bootComplete, bootStart, extPort, llmTx, extTx, rjStart,
                       collector, segmenter, peers, arrivals,
                       commands>>

\* sendSetupQuery, lines 79-95, and loop(), lines 220-225: readJsonMessage
\* has returned response.
SetupReturn(response) ==
    LET outcome == SetupOutcome(response)
    IN  /\ setupResponse' = response
        /\ setupRet' = IF outcome.ok THEN "ok" ELSE "failed"
        /\ llmWorkId' = IF outcome.ok THEN outcome.workId ELSE llmWorkId
        /\ pc' = "main"
        /\ UNCHANGED polls
        /\ UNCHANGED <<bootComplete, bootStart, extPort, llmTx, extTx, rjStart,
                       collector, segmenter, peers, arrivals,
                       commands>>

\* readJsonMessage, lines 40-54: a poll that finds bytes and reads a line.
ReadJsonLine ==
    /\ pc = "setup"
    /\ now - rjStart < SetupTimeoutMs
    /\ \E r \in Reads(llmRx, llmPart) :
          /\ llmRx' = r.rx
          /\ llmPart' = r.part
          /\ rjRead' = Append(rjRead, r.line)
          /\ LET c == Candidate(r.line)
             IN  IF c.found
                 THEN /\ SetupReturn(c.text)
                      /\ now' = now + r.wait
                 ELSE /\ now' = now + r.wait + PollMs
                      /\ UNCHANGED polls
                      /\ UNCHANGED <<pc, session, extPort, llmTx, extTx,
                                     rjStart, setupResponse, setupRet,
                                     collector, segmenter, peers, arrivals,
                                     commands>>

\* The LLM peer falls silent for good: it sends no further line, and not
\* the rest of a line of which readStringUntil has returned the first piece.
PeerSilent ==
    /\ peerLimit' = peerSent
    /\ llmPart' = NoPart
    /\ UNCHANGED <<llmRx, peerKinds, peerSplits, extSplits, silentCap,
                   idleCap, splitSent, peerSent, extSent>>

\* readJsonMessage, lines 40-54: a poll that finds nothing, while a line is
\* still to come.
ReadJsonPoll ==
    /\ pc = "setup"
    /\ now - rjStart < SetupTimeoutMs
    /\ ~Available(llmRx, llmPart)
    /\ PeerToCome
    /\ silent < silentCap
    /\ silent' = silent + 1
    /\ UNCHANGED idle
    /\ now' = now + PollMs
    /\ UNCHANGED <<pc, session, llmPort, extPort, llmTx, extTx, reader,
                   collector, segmenter, peers, arrivals, commands>>

\* readJsonMessage, lines 40-54: the LLM peer sends nothing more, and the
\* polls that find nothing go on until the timeout has passed.
ReadJsonIdle ==
    /\ pc = "setup"
    /\ now - rjStart < SetupTimeoutMs
    /\ ~Available(llmRx, llmPart)
    /\ PeerSilent
    /\ now' = FirstPollFrom(now, rjStart + SetupTimeoutMs)
    /\ UNCHANGED <<pc, session, extPort, llmTx, extTx, reader, collector,
                   segmenter, arrivals, polls, commands>>

\* readJsonMessage, lines 40 and 56: the timeout; it returns "".
ReadJsonTimeout ==
    /\ pc = "setup"
    /\ now - rjStart >= SetupTimeoutMs
    /\ SetupReturn(<<>>)
    /\ UNCHANGED <<now, llmPort, rjRead>>

\* ------------------------------------------------------------ main loop
\* loop(), lines 217-229, entered again after it returned: past the boot
\* block once bootComplete is set.
LoopEntry == IF bootComplete THEN "main" ELSE "boot"

\* The locals of sendSetupQuery and readJsonMessage are gone once loop()
\* goes on; the verdict stays on record.
SetupLocalsGone ==
    /\ rjStart' = 0
    /\ rjRead' = <<>>
    /\ setupResponse' = <<>>
    /\ UNCHANGED setupRet

\* loop(), lines 232 and 266: a pass that finds no external line.
LoopPoll ==
    /\ pc = "main"
    /\ ~Available(extRx, extPart)
    /\ idle < idleCap
    /\ ExtToCome
    /\ now' = now + PollMs
    /\ idle' = idle + 1
    /\ UNCHANGED silent
    /\ pc' = LoopEntry
    /\ SetupLocalsGone
    /\ UNCHANGED <<session, llmPort, extPort, llmTx, extTx, collector,
                   segmenter, peers, arrivals, commands>>

\* LoopCommand without the test of the command's length: an empty command
\* is sent on like any other.
LoopCommandSendsEmpty ==
    /\ pc = "main"
    /\ \E r \in Reads(extRx, extPart) :
          /\ extRx' = r.rx
          /\ extPart' = r.part
          /\ extLine' = r.line
          /\ llmTx' = Append(llmTx,
                             InferenceRequest(llmWorkId,
                                              CleanCommand(Trim(r.line))))
          /\ pc' = "collect"
          /\ overallTimeout' = OverallTimeoutMs
          /\ inactivityTimeout' = InactivityTimeoutMs
          /\ completeResponse' = <<>>
          /\ finished' = FALSE
          /\ startTime' = now + r.wait
          /\ lastReceiveTime' = now + r.wait
          /\ consumed' = <<>>
          /\ exitReason' = "none"
          /\ staleAtStart' = Len(llmRx)
          /\ lastArrival' = now + r.wait
          /\ lastByte' = now + r.wait
          /\ now' = now + r.wait
    /\ extRead' = extRead + 1
    /\ UNCHANGED polls
    /\ SetupLocalsGone
    /\ UNCHANGED <<session, llmPort, extTx, segmenter, peers>>

\* loop(), lines 232-257: an external line is read and cleaned; a command
\* that is not empty is sent as an inference request and readFullResponse
\* starts (lines 104-107).
LoopCommand ==
    /\ pc = "main"
    /\ \E r \in Reads(extRx, extPart) :
          /\ extRx' = r.rx
          /\ extPart' = r.part
          /\ extLine' = r.line
          /\ LET command == CleanCommand(Trim(r.line))
             IN  IF Len(command) > 0
                 THEN /\ llmTx' = Append(llmTx,
                                         InferenceRequest(llmWorkId, command))
                      /\ pc' = "collect"
                      /\ overallTimeout' = OverallTimeoutMs
                      /\ inactivityTimeout' = InactivityTimeoutMs
                      /\ completeResponse' = <<>>
                      /\ finished' = FALSE
                      /\ startTime' = now + r.wait
                      /\ lastReceiveTime' = now + r.wait
                      /\ consumed' = <<>>
                      /\ exitReason' = "none"
                      /\ staleAtStart' = Len(llmRx)
                      /\ lastArrival' = now + r.wait
                      /\ lastByte' = now + r.wait
                      /\ now' = now + r.wait
                 ELSE /\ now' = now + r.wait + PollMs
                      /\ pc' = LoopEntry
                      /\ UNCHANGED <<llmTx, collector, arrivals>>
    /\ extRead' = extRead + 1
    /\ UNCHANGED polls
    /\ SetupLocalsGone
    /\ UNCHANGED <<session, llmPort, extTx, segmenter, peers>>

\* ---------------------------------------------------- response collection
\* readFullResponse, line 109: the loop goes on.
Collecting ==
    /\ pc = "collect"
    /\ ~finished
    /\ now - startTime < overallTimeout

\* readFullResponse, lines 131 and loop(), lines 257-262: the response is
\* returned and handed to sendSentences.
CollectEnd(reason) ==
    /\ exitReason' = reason
    /\ pc' = "emit"
    /\ text' = completeResponse
    /\ startIndex' = 0
    /\ UNCHANGED polls
    /\ UNCHANGED <<now, session, llmPort, extPort, llmTx, extTx, reader,
                   startTime, lastReceiveTime, completeResponse, finished,
                   overallTimeout, inactivityTimeout, consumed, staleAtStart,
                   peers, arrivals, commands>>

\* CollectLine with the inactivity clock reset only by a line that parses.
CollectLineResetOnParsed ==
    /\ Collecting
    /\ \E r \in Reads(llmRx, llmPart) :
          LET f == FoldLine(r.line, completeResponse)
          IN  /\ completeResponse' = f.acc
              /\ finished' = f.finished
              /\ now' = now + r.wait + (IF f.skipped THEN 0 ELSE PollMs)
              /\ lastReceiveTime' = IF f.skipped THEN lastReceiveTime ELSE now
              /\ llmRx' = r.rx
              /\ llmPart' = r.part
              /\ consumed' = Append(consumed, r.line)
              /\ lastByte' = IF r.wait > 0 /\ r.whole THEN now + r.wait
                             ELSE lastByte
    /\ UNCHANGED polls
    /\ UNCHANGED <<pc, session, extPort, llmTx, extTx, reader, startTime,
                   overallTimeout, inactivityTimeout, exitReason, staleAtStart,
                   segmenter, peers, lastArrival, commands>>

\* readFullResponse, lines 110-125 and 129: a poll that finds bytes; the
\* inactivity clock is reset, then a line is read and folded in.
CollectLine ==
    /\ Collecting
    /\ \E r \in Reads(llmRx, llmPart) :
          LET f == FoldLine(r.line, completeResponse)
          IN  /\ completeResponse' = f.acc
              /\ finished' = f.finished
              /\ now' = now + r.wait + (IF f.skipped THEN 0 ELSE PollMs)
              /\ lastReceiveTime' = now
              /\ llmRx' = r.rx
              /\ llmPart' = r.part
              /\ consumed' = Append(consumed, r.line)
              /\ lastByte' = IF r.wait > 0 /\ r.whole THEN now + r.wait
                             ELSE lastByte
    /\ UNCHANGED polls
    /\ UNCHANGED <<pc, session, extPort, llmTx, extTx, reader, startTime,
                   overallTimeout, inactivityTimeout, exitReason, staleAtStart,
                   segmenter, peers, lastArrival, commands>>

\* readFullResponse, lines 109 and 127: the instant from which a poll
\* that finds nothing ends the loop.
CollectLimit ==
    Min(startTime + overallTimeout, lastReceiveTime + inactivityTimeout + 1)

\* CollectPoll going on until twice inactivityTimeout has passed.
CollectPollTwiceAsLong ==
    /\ Collecting
    /\ ~Available(llmRx, llmPart)
    /\ now - lastReceiveTime <= 2 * inactivityTimeout
    /\ PeerToCome
    /\ silent < silentCap
    /\ silent' = silent + 1
    /\ UNCHANGED idle
    /\ now' = now + PollMs
    /\ UNCHANGED <<pc, session, llmPort, extPort, llmTx, extTx, reader,
                   collector, segmenter, peers, arrivals, commands>>

\* readFullResponse, lines 126-129: a poll that finds nothing and does not
\* break, while a line is still to come.
CollectPoll ==
    /\ Collecting
    /\ ~Available(llmRx, llmPart)
    /\ now - lastReceiveTime <= inactivityTimeout
    /\ PeerToCome
    /\ silent < silentCap
    /\ silent' = silent + 1
    /\ UNCHANGED idle
    /\ now' = now + PollMs
    /\ UNCHANGED <<pc, session, llmPort, extPort, llmTx, extTx, reader,
                   collector, segmenter, peers, arrivals, commands>>

\* readFullResponse, lines 126-129: the LLM peer sends nothing more, and
\* the polls that find nothing go on until one of them ends the loop.
CollectIdle ==
    /\ Collecting
    /\ ~Available(llmRx, llmPart)
    /\ now - lastReceiveTime <= inactivityTimeout
    /\ PeerSilent
    /\ now' = FirstPollFrom(now, CollectLimit)
    /\ UNCHANGED <<pc, session, extPort, llmTx, extTx, reader, collector,
                   segmenter, arrivals, polls, commands>>

\* readFullResponse, line 127: nothing to read and the last reset of the
\* clock is more than inactivityTimeout old; the loop breaks.
CollectBreak ==
    /\ Collecting
    /\ ~Available(llmRx, llmPart)
    /\ now - lastReceiveTime > inactivityTimeout
    /\ CollectEnd("inactivity")

\* readFullResponse, line 109: finished, or overallTimeout has passed.
CollectReturn ==
    /\ pc = "collect"
    /\ ~Collecting
    /\ CollectEnd(IF finished THEN "finish" ELSE "overall")

\* --------------------------------------------------------------- sentences
\* SendSentence without delay(1000) after a write.
SendSentenceNoDelay ==
    /\ pc = "emit"
    /\ startIndex < Len(text)
    /\ LET step == SentenceStep(text, startIndex)
           wrote == Len(step.sentence) > 0
       IN  /\ extTx' = IF wrote
                       THEN Append(extTx, step.sentence)
                       ELSE extTx
           /\ startIndex' = step.next
           /\ pc' = IF step.last THEN "sent" ELSE "emit"
           /\ now' = now
    /\ UNCHANGED <<session, llmPort, extPort, llmTx, reader, collector, text,
                   peers, arrivals, polls, commands>>

\* sendSentences, lines 168-187: one iteration; the last one returns to
\* loop(), which ends with delay(10).
SendSentence ==
    /\ pc = "emit"
    /\ startIndex < Len(text)
    /\ LET step == SentenceStep(text, startIndex)
           wrote == Len(step.sentence) > 0
       IN  /\ extTx' = IF wrote
                       THEN Append(extTx, step.sentence)
                       ELSE extTx
           /\ startIndex' = step.next
           /\ pc' = IF step.last THEN "sent" ELSE "emit"
           /\ now' = now + (IF wrote THEN PacingMs ELSE 0)
    /\ UNCHANGED <<session, llmPort, extPort, llmTx, reader, collector, text,
                   peers, arrivals, polls, commands>>

\* sendSentences, line 168: nothing is left.
SendReturn ==
    /\ pc = "emit"
    /\ startIndex >= Len(text)
    /\ pc' = "sent"
    /\ UNCHANGED <<now, session, llmPort, extPort, llmTx, extTx, reader,
                   collector, segmenter, peers, arrivals, polls,
                   commands>>

\* loop(), lines 262-266: sendSentences has returned; the response and the
\* locals of readFullResponse and sendSentences are gone, and loop() ends
\* with delay(10).
LoopEnd ==
    /\ pc = "sent"
    /\ pc' = LoopEntry
    /\ now' = now + PollMs
    /\ startTime' = 0 /\ lastReceiveTime' = 0 /\ completeResponse' = <<>>
    /\ finished' = FALSE
    /\ consumed' = <<>> /\ exitReason' = "none" /\ staleAtStart' = 0
    /\ text' = <<>> /\ startIndex' = 0
    /\ lastArrival' = 0 /\ lastByte' = 0
    /\ UNCHANGED <<session, llmPort, extPort, llmTx, extTx, reader,
                   overallTimeout, inactivityTimeout, peers, polls,
                   commands>>

\* ------------------------------------------------------- specifications
\* The state setup() leaves (lines 193-208), the LLM peer choosing from
\* kinds and sending at most lines lines, the peers sending the lines of
\* splits in pieces, and at most caps[1] polls of readJsonMessage and
\* readFullResponse and caps[2] passes of loop() finding nothing while a
\* line is to come.
Boot(kinds, splits, lines, caps) ==
    /\ now = 0
    /\ pc = "boot"
    /\ bootComplete = FALSE
    /\ bootStart = 0
    /\ llmWorkId = DefaultWorkId
    /\ llmRx = <<>> /\ extRx = <<>> /\ llmTx = <<>> /\ extTx = <<>>
    /\ llmPart = NoPart /\ extPart = NoPart
    /\ rjStart = 0 /\ rjRead = <<>> /\ setupResponse = <<>>
    /\ setupRet = "pending"
    /\ startTime = 0 /\ lastReceiveTime = 0 /\ completeResponse = <<>>
    /\ finished = FALSE
    /\ overallTimeout = OverallTimeoutMs
    /\ inactivityTimeout = InactivityTimeoutMs
    /\ consumed = <<>> /\ exitReason = "none" /\ staleAtStart = 0
    /\ text = <<>> /\ startIndex = 0
    /\ peerKinds = kinds /\ peerSplits = splits[1] /\ extSplits = splits[2]
    /\ silentCap = caps[1] /\ idleCap = caps[2] /\ peerLimit = lines
    /\ splitSent = 0 /\ peerSent = 0 /\ extSent = 0
    /\ silent = 0 /\ idle = 0
    /\ lastArrival = 0 /\ lastByte = 0
    /\ extRead = 0 /\ extLine = <<>>

\* The whole bridge.
Init ==
    Boot(BridgeKinds, <<BridgeSplits, ExtSplits>>, MaxPeerLines,
         <<MaxSilentPolls, MaxIdlePasses>>)

Next ==
    \/ LoopBootWait \/ LoopSetup
    \/ ReadJsonLine \/ ReadJsonPoll \/ ReadJsonIdle \/ ReadJsonTimeout
    \/ LoopPoll \/ LoopCommand
    \/ CollectLine \/ CollectBreak \/ CollectReturn
    \/ CollectPoll \/ CollectIdle
    \/ SendSentence \/ SendReturn \/ LoopEnd
    \/ \E kind \in peerKinds : PeerSend(kind)
    \/ \E kind \in peerSplits : PeerSendPart(kind)
    \/ PeerSendRest
    \/ \E line \in ExtLines : ExtSend(line)
    \/ \E line \in extSplits : ExtSendPart(line)
    \/ ExtSendRest

Spec == Init /\ [][Next]_vars

\* The setup exchange alone: boot, sendSetupQuery and its readJsonMessage.
InitSetup ==
    Boot(SetupKinds, <<SetupSplits, {}>>, MaxSetupLines, <<SetupPolls, 0>>)

NextSetup ==
    \/ LoopBootWait \/ LoopSetup
    \/ ReadJsonLine \/ ReadJsonPoll \/ ReadJsonIdle \/ ReadJsonTimeout
    \/ \E kind \in peerKinds : PeerSend(kind)
    \/ \E kind \in peerSplits : PeerSendPart(kind)
    \/ PeerSendRest

SpecSetup == InitSetup /\ [][NextSetup]_vars

\* Boot, setup and commands with an LLM peer that answers the setup request
\* and nothing else: every poll of the setup exchange is taken, and the
\* collections that follow meet a peer that has nothing more to send.
InitSession ==
    Boot(SetupKinds, <<{}, {}>>, MaxSessionLines, <<SetupPolls, MaxIdlePasses>>)

NextSession ==
    \/ LoopBootWait \/ LoopSetup
    \/ ReadJsonLine \/ ReadJsonPoll \/ ReadJsonIdle \/ ReadJsonTimeout
    \/ LoopPoll \/ LoopCommand
    \/ CollectLine \/ CollectIdle \/ CollectBreak
    \/ SendReturn \/ LoopEnd
    \/ \E kind \in peerKinds : PeerSend(kind)
    \/ \E line \in SessionLines : ExtSend(line)

SpecSession == InitSession /\ [][NextSession]_vars

\* loop() after a setup that timed out: the state in which ReadJsonTimeout
\* leaves the bridge when nothing has arrived, the LLM peer choosing from
\* kinds and sending at most lines lines, the peers sending the lines of
\* splits in pieces, and at most caps[1] polls of readJsonMessage and
\* readFullResponse and caps[2] passes of loop() finding nothing while a
\* line is to come.
SetupTimedOut(kinds, splits, lines, caps) ==
    /\ now = BootDelayMs + SettleMs + SetupTimeoutMs
    /\ pc = "main"
    /\ bootComplete = TRUE
    /\ bootStart = 0
    /\ llmWorkId = DefaultWorkId
    /\ llmRx = <<>> /\ extRx = <<>> /\ llmTx = <<SetupRequest>> /\ extTx = <<>>
    /\ llmPart = NoPart /\ extPart = NoPart
    /\ rjStart = BootDelayMs + SettleMs /\ rjRead = <<>>
    /\ setupResponse = <<>>
    /\ setupRet = "failed"
    /\ startTime = 0 /\ lastReceiveTime = 0 /\ completeResponse = <<>>
    /\ finished = FALSE
    /\ overallTimeout = OverallTimeoutMs
    /\ inactivityTimeout = InactivityTimeoutMs
    /\ consumed = <<>> /\ exitReason = "none" /\ staleAtStart = 0
    /\ text = <<>> /\ startIndex = 0
    /\ peerKinds = kinds /\ peerSplits = splits[1] /\ extSplits = splits[2]
    /\ silentCap = caps[1] /\ idleCap = caps[2] /\ peerLimit = lines
    /\ splitSent = 0 /\ peerSent = 0 /\ extSent = 0
    /\ silent = 0 /\ idle = 0
    /\ lastArrival = 0 /\ lastByte = 0
    /\ extRead = 0 /\ extLine = <<>>

\* The commands alone: loop() with a silent LLM peer.
InitCommands ==
    SetupTimedOut({}, <<{}, CommandSplits>>, 0, <<0, MaxIdlePasses>>)

NextCommands ==
    \/ LoopPoll \/ LoopCommand
    \/ CollectIdle \/ CollectBreak
    \/ SendReturn \/ LoopEnd
    \/ \E line \in CommandLines : ExtSend(line)
    \/ \E line \in extSplits : ExtSendPart(line)
    \/ ExtSendRest

SpecCommands == InitCommands /\ [][NextCommands]_vars

\* The inference cycles alone: loop() after a setup that timed out, the LLM
\* peer answering with texts of several units.
InitCycles ==
    SetupTimedOut(PacingKinds, <<PacingSplits, ExtSplits>>, MaxPeerLines,
                  <<MaxSilentPolls, MaxIdlePasses>>)

NextCycles ==
    \/ LoopPoll \/ LoopCommand
    \/ CollectLine \/ CollectBreak \/ CollectReturn
    \/ CollectPoll \/ CollectIdle
    \/ SendSentence \/ SendReturn \/ LoopEnd
    \/ \E kind \in peerKinds : PeerSend(kind)
    \/ \E kind \in peerSplits : PeerSendPart(kind)
    \/ PeerSendRest
    \/ \E line \in ExtLines : ExtSend(line)
    \/ \E line \in extSplits : ExtSendPart(line)
    \/ ExtSendRest

SpecCycles == InitCycles /\ [][NextCycles]_vars

\* sendSentences alone, called at time 0 with a response drawn from Texts.
InitSentences ==
    /\ now = 0
    /\ pc = "emit"
    /\ bootComplete = TRUE
    /\ bootStart = 0
    /\ llmWorkId = DefaultWorkId
    /\ llmRx = <<>> /\ extRx = <<>> /\ llmTx = <<>> /\ extTx = <<>>
    /\ llmPart = NoPart /\ extPart = NoPart
    /\ rjStart = 0 /\ rjRead = <<>> /\ setupResponse = <<>>
    /\ setupRet = "failed"
    /\ startTime = 0 /\ lastReceiveTime = 0
    /\ text \in Texts
    /\ completeResponse = text
    /\ finished = TRUE
    /\ overallTimeout = OverallTimeoutMs
    /\ inactivityTimeout = InactivityTimeoutMs
    /\ consumed = <<>> /\ exitReason = "finish" /\ staleAtStart = 0
    /\ startIndex = 0
    /\ peerKinds = {} /\ peerSplits = {} /\ extSplits = {}
    /\ silentCap = 0 /\ idleCap = 0 /\ peerLimit = 0
    /\ splitSent = 0 /\ peerSent = 0 /\ extSent = 0
    /\ silent = 0 /\ idle = 0
    /\ lastArrival = 0 /\ lastByte = 0
    /\ extRead = 0 /\ extLine = <<>>

NextSentences == SendSentence \/ SendReturn

SpecSentences == InitSentences /\ [][NextSentences]_vars

\* readFullResponse alone, called at time 0 with timeouts drawn from
\* CollectorTimeouts.
InitCollector ==
    /\ now = 0
    /\ pc = "collect"
    /\ bootComplete = TRUE
    /\ bootStart = 0
    /\ llmWorkId = DefaultWorkId
    /\ llmRx = <<>> /\ extRx = <<>> /\ llmTx = <<>> /\ extTx = <<>>
    /\ llmPart = NoPart /\ extPart = NoPart
    /\ rjStart = 0 /\ rjRead = <<>> /\ setupResponse = <<>>
    /\ setupRet = "failed"
    /\ startTime = 0 /\ lastReceiveTime = 0 /\ completeResponse = <<>>
    /\ finished = FALSE
    /\ \E t \in CollectorTimeouts :
          overallTimeout = t[1] /\ inactivityTimeout = t[2]
    /\ consumed = <<>> /\ exitReason = "none" /\ staleAtStart = 0
    /\ text = <<>> /\ startIndex = 0
    /\ peerKinds = StreamKinds /\ peerSplits = StreamSplits /\ extSplits = {}
    /\ silentCap = MaxCollectorPolls /\ idleCap = 0
    /\ peerLimit = MaxPeerLines
    /\ splitSent = 0 /\ peerSent = 0 /\ extSent = 0
    /\ silent = 0 /\ idle = 0
    /\ lastArrival = 0 /\ lastByte = 0
    /\ extRead = 0 /\ extLine = <<>>

NextCollector ==
    \/ CollectLine \/ CollectBreak \/ CollectReturn
    \/ CollectPoll \/ CollectIdle
    \/ \E kind \in peerKinds : PeerSend(kind)
    \/ \E kind \in peerSplits : PeerSendPart(kind)
    \/ PeerSendRest

SpecCollector == InitCollector /\ [][NextCollector]_vars

\* ------------------------------------------- properties: the collector
\* The delta a line carries according to the stream protocol: the string
\* data.delta of a line that is a JSON frame, nothing for any other line.
RECURSIVE ConcatDeltas(_)
DeltaOf(line) ==
    LET parsed == DeserializeJson(Trim(line))
        delta == Member(Member(parsed.doc, "data"), "delta")
    IN  IF parsed.error = "Ok" /\ delta.t = "str" THEN delta.v ELSE <<>>

ConcatDeltas(lines) ==
    IF Len(lines) = 0 THEN <<>>
    ELSE DeltaOf(Head(lines)) \o ConcatDeltas(Tail(lines))

\* The line is a frame with data.finish == true.
HasFinish(line) ==
    LET parsed == DeserializeJson(Trim(line))
        fin == Member(Member(parsed.doc, "data"), "finish")
    IN  parsed.error = "Ok" /\ fin.t = "bool" /\ fin.v

HelloWorld == <<LineOf("hello"), LineOf("world"), LineOf("dotfin")>>

\* C1: while readFullResponse runs its accumulator is the concatenation, in
\* arrival order, of the deltas of the lines read so far; a frame with
\* finish == true is the last line read and ends the collection; when the
\* collection ends on a finishing frame the returned text is that
\* concatenation with the finishing frame's own delta included, and the
\* frames "Hello", " world", "." + finish give "Hello world.".
C1_FinishReturnsAllDeltas ==
    /\ pc = "collect" => completeResponse = ConcatDeltas(consumed)
    /\ pc \in {"collect", "emit", "sent"} =>
          \A i \in 1 .. Len(consumed) :
              HasFinish(consumed[i]) => (i = Len(consumed) /\ finished)
    /\ exitReason = "finish" =>
          /\ text = ConcatDeltas(consumed)
          /\ Len(consumed) > 0
    /\ (exitReason = "finish" /\ consumed = HelloWorld) =>
          text = <<"H", "e", "l", "l", "o", " ", "w", "o", "r", "l", "d", ".">>

C1_Witness ==
    /\ exitReason = "finish"
    /\ consumed = HelloWorld
    /\ text = Hello \o World \o Dot

\* C2: a poll of readFullResponse that finds nothing goes on polling only
\* while no more than inactivityTimeout has passed since bytes were last
\* seen waiting: the polls that follow each other in vain end with the
\* first that comes later than that.  Once a poll finds nothing and more
\* than inactivityTimeout has passed, with no finishing frame read, the
\* next thing readFullResponse does is to stop, at that instant, and what it
\* returns is the accumulator.  When it has ended by inactivity no
\* finishing frame was read, more than inactivityTimeout had passed, and
\* the text returned is the concatenation of the deltas of all lines read.
C2_InactivityReturnsAccumulated ==
    /\ [](exitReason = "inactivity" =>
             /\ ~finished
             /\ text = ConcatDeltas(consumed)
             /\ \A i \in 1 .. Len(consumed) : ~HasFinish(consumed[i])
             /\ now - lastReceiveTime > inactivityTimeout)
    /\ [][/\ (pc = "collect" /\ pc' = "collect" /\ now' # now
              /\ consumed' = consumed) =>
                /\ now - lastReceiveTime <= inactivityTimeout
                /\ now' - PollMs - lastReceiveTime <= inactivityTimeout
          /\ (/\ pc = "collect" /\ ~finished
              /\ ~Available(llmRx, llmPart)
              /\ now - lastReceiveTime > inactivityTimeout
              /\ (pc' # pc \/ now' # now \/ consumed' # consumed)) =>
                /\ pc' = "emit"
                /\ exitReason' \in {"inactivity", "overall"}
                /\ text' = completeResponse
                /\ text' = ConcatDeltas(consumed)
                /\ now' = now]_vars

C2_Witness ==
    /\ exitReason = "inactivity"
    /\ consumed = <<LineOf("hello"), LineOf("world")>>
    /\ text = Hello \o World

\* C3: readFullResponse is never still running a poll after overallTimeout
\* has passed since its start, whatever the peer sends; when the deadline
\* ends it, it returns the accumulator no later than the first poll after
\* the deadline.
C3_OverallDeadlineEnds ==
    /\ pc = "collect" => now - startTime < overallTimeout + PollMs
    /\ exitReason = "overall" =>
          /\ now - startTime >= overallTimeout
          /\ now - startTime < overallTimeout + PollMs
          /\ text = completeResponse

\* C4, a line arriving when it is complete: every line readFullResponse
\* reads resets the inactivity clock, whether it parses or not, and the
\* collection ends by inactivity only when nothing waits in the receive
\* buffer and more than inactivityTimeout has passed since the later of its
\* start and the instant the last byte of a line arrived.
C4_AnyLineResetsInactivity ==
    [][/\ (pc = "collect" /\ consumed' # consumed) => lastReceiveTime' = now
       /\ (exitReason = "none" /\ exitReason' = "inactivity") =>
             /\ ~Available(llmRx, llmPart)
             /\ now - Max(startTime, lastByte) > inactivityTimeout]_vars

\* C4, a line arriving with its first bytes: every line readFullResponse
\* reads resets the inactivity clock, whether it parses or not, to the
\* instant of the poll that saw its first bytes, and the collection ends by
\* inactivity only when nothing waits in the receive buffer and more than
\* inactivityTimeout has passed since the later of its start and the
\* instant the first bytes of the last line arrived.
C4_FirstBytesResetInactivity ==
    [][/\ (pc = "collect" /\ consumed' # consumed) => lastReceiveTime' = now
       /\ (exitReason = "none" /\ exitReason' = "inactivity") =>
             /\ ~Available(llmRx, llmPart)
             /\ now - Max(startTime, lastArrival) > inactivityTimeout]_vars

\* A line that does not parse was the last one read; it reset the clock, and
\* the collection ended by inactivity counted from it.
C4_Witness ==
    /\ exitReason = "inactivity"
    /\ Len(consumed) > 0
    /\ consumed[Len(consumed)] = LineOf("noise")
    /\ lastReceiveTime > startTime
    /\ now - startTime > inactivityTimeout + PollMs

\* ---------------------------------------------- properties: the setup
\* The response sendSetupQuery decoded, as a JSON object (its fields).
ResponseFields == JsonValue(setupResponse[1]).v

HasString(fields, key) == key \in DOMAIN fields /\ fields[key].t = "str"

IdMatches(fields) ==
    HasString(fields, "request_id") /\ fields["request_id"].v = RequestId

\* The response carries an error object with a code that is not the
\* number 0.
ErrorCodeNonzero(fields) ==
    /\ "error" \in DOMAIN fields
    /\ fields["error"].t = "obj"
    /\ "code" \in DOMAIN fields["error"].v
    /\ LET code == fields["error"].v["code"]
       IN  ~(code.t \in {"int", "float"} /\ code.v = 0)

\* sendSetupQuery has returned and readJsonMessage had given it a frame.
SetupDecoded == setupRet # "pending" /\ Len(setupResponse) > 0

\* C5: on a decoded response, sendSetupQuery fails when request_id is absent
\* or is not "llm_001", when work_id is absent, or when error.code is not 0;
\* it succeeds when request_id matches, error is absent or has code 0, and
\* work_id is a string that is not empty.
C5_SetupVerdict ==
    SetupDecoded =>
       /\ (\/ ~IdMatches(ResponseFields)
           \/ ~HasString(ResponseFields, "work_id")
           \/ ErrorCodeNonzero(ResponseFields)) => setupRet = "failed"
       /\ (/\ IdMatches(ResponseFields)
           /\ ~ErrorCodeNonzero(ResponseFields)
           /\ HasString(ResponseFields, "work_id")
           /\ Len(ResponseFields["work_id"].v) > 0) => setupRet = "ok"

\* C6: a response with matching request_id, no error and work_id "" makes
\* the setup fail and leaves the session id alone.
C6_EmptyWorkIdFails ==
    (SetupDecoded /\ setupResponse = <<"{emptywork}">>) =>
       (setupRet = "failed" /\ llmWorkId = DefaultWorkId)

\* The work_id of the decoded response.
ResponseWorkId == ResponseFields["work_id"].v

\* C7: llmWorkId changes only in the step in which sendSetupQuery returns
\* success, from its boot value, once; after a success it is the work_id of
\* the response, after a failure it is still the boot value, and no later
\* step (an inference cycle included) changes it.
C7_SessionIdWrittenOnceOnSuccess ==
    [][/\ llmWorkId' # llmWorkId =>
             /\ pc = "setup"
             /\ setupRet = "pending"
             /\ setupRet' = "ok"
             /\ llmWorkId = DefaultWorkId
       /\ setupRet' = "failed" => llmWorkId' = DefaultWorkId
       /\ (setupRet = "pending" /\ setupRet' = "ok") =>
             llmWorkId' = ResponseWorkId'
       /\ setupRet' = "pending" => llmWorkId' = DefaultWorkId]_vars

\* A successful setup followed by two inference cycles.
C7_Witness ==
    /\ setupRet = "ok"
    /\ llmWorkId = PeerWorkId
    /\ Len(llmTx) = 3
    /\ pc = "main"

\* ----------------------------------------------- properties: the bridge
\* C8: no inference request is sent while the setup has not succeeded.
C8_NoInferenceWithoutSession ==
    \A i \in 1 .. Len(llmTx) :
        llmTx[i].action = "inference" => setupRet = "ok"

\* C9: before the boot delay has passed nothing is sent to the LLM and no
\* external line is read; the setup request is the first message sent,
\* it is sent once, at or after the boot delay, and whatever follows it,
\* after success or failure, is an inference request.
C9_BootThenOneSetup ==
    /\ now - bootStart < BootDelayMs =>
          (Len(llmTx) = 0 /\ extRead = 0 /\ pc = "boot")
    /\ (extRead > 0 \/ pc # "boot") => Len(llmTx) > 0
    /\ Len(llmTx) > 0 =>
          /\ llmTx[1].action = "setup"
          /\ \A i \in 2 .. Len(llmTx) : llmTx[i].action = "inference"

\* The setup failed and two inference requests followed: no second setup.
C9_Witness ==
    /\ setupRet = "failed"
    /\ Len(llmTx) = 3
    /\ llmTx[1].action = "setup"
    /\ extRead >= 2

\* ------------------------------------------ properties: the frame reader
\* The line, trimmed, is a prefix without '{' followed by one JSON text.
PrefixThenJson(line) ==
    LET trimmed == Trim(line)
    IN  /\ Len(trimmed) > 0
        /\ IsJsonText(trimmed[Len(trimmed)])
        /\ \A i \in 1 .. (Len(trimmed) - 1) : ~IsBrace(trimmed[i])

\* The JSON text of such a line: the substring from its first '{'.
JsonPart(line) == <<Trim(line)[Len(Trim(line))]>>

\* The JSON text is nested no deeper than deserializeJson accepts.
WithinNesting(line) == Depth(JsonValue(JsonPart(line)[1])) <= NestingLimit

\* readJsonMessage returned on the last line it read.
ReturnedOnLast(i) ==
    /\ i = Len(rjRead)
    /\ setupRet # "pending"
    /\ setupResponse = JsonPart(rjRead[i])

\* C10, for all well-formed JSON: every line read that is a prefix without
\* '{' followed by well-formed JSON is returned, cut at its first '{'.
C10_PrefixedJsonReturned ==
    \A i \in 1 .. Len(rjRead) :
        PrefixThenJson(rjRead[i]) => ReturnedOnLast(i)

\* C10, for accepted JSON: every line read that is a prefix without '{' followed by
\* JSON that deserializeJson accepts (nested at most NestingLimit deep) is
\* returned, cut at its first '{'; a frame is returned on the line that
\* carries it, and no line is read after it.
C10_AcceptedJsonReturned ==
    /\ \A i \in 1 .. Len(rjRead) :
          (PrefixThenJson(rjRead[i]) /\ WithinNesting(rjRead[i])) =>
             ReturnedOnLast(i)
    /\ SetupDecoded =>
          /\ Len(rjRead) > 0
          /\ setupResponse =
                Substring(Trim(rjRead[Len(rjRead)]),
                          IndexOfBrace(Trim(rjRead[Len(rjRead)])))

\* A prefixed frame was returned without its prefix, and the line that
\* came after it is still unread.
C10_Witness ==
    /\ SetupDecoded
    /\ rjRead = <<LineOf("prefixed")>>
    /\ setupResponse = <<"{ok}">>
    /\ Len(llmRx) = 1
    /\ peerSent = 2

\* The text is one well-formed JSON value and nothing else.
WellFormedJson(s) == Len(s) = 1 /\ IsJsonText(s[1])

\* The line, trimmed, has no '{', or its text from the first '{' on is not
\* well-formed JSON.
Malformed(line) ==
    LET trimmed == Trim(line)
        idx == IndexOfBrace(trimmed)
    IN  idx = -1 \/ ~WellFormedJson(Substring(trimmed, idx))

\* C11: a line without '{', or whose text from its first '{' on is not
\* well-formed JSON, is never returned by readJsonMessage: when it is the
\* last line read the call has not returned or has returned "", and what
\* readJsonMessage returns is "" or well-formed JSON.
C11_MalformedNeverReturned ==
    /\ \A i \in 1 .. Len(rjRead) :
          (Malformed(rjRead[i]) /\ i = Len(rjRead)) =>
             (setupRet = "pending" \/ setupResponse = <<>>)
    /\ (setupRet # "pending" /\ Len(setupResponse) > 0) =>
          WellFormedJson(setupResponse)

\* ------------------------------------------ properties: the commands
\* The text after the first ':' of a text that has one.
RECURSIVE AfterFirstColon(_)
AfterFirstColon(s) ==
    IF Head(s) = ":" THEN Tail(s) ELSE AfterFirstColon(Tail(s))

HasColon(s) == \E i \in 1 .. Len(s) : s[i] = ":"

HasMarker(s) ==
    Len(s) >= 4 /\ s[1] = "C" /\ s[2] = "M" /\ s[3] = "D" /\ s[4] = ":"

\* The normalized command: trim; without a leading "CMD:", trimmed; without
\* everything up to and including the first ':' that remains; trimmed.
Normalized(line) ==
    LET trimmed == Trim(line)
        unmarked == IF HasMarker(trimmed)
                    THEN Trim(SubSeq(trimmed, 5, Len(trimmed)))
                    ELSE trimmed
    IN  IF HasColon(unmarked) THEN Trim(AfterFirstColon(unmarked))
        ELSE unmarked

\* C12: the command loop() makes of an external line is the normalized line:
\* when that is not empty it is the data.delta of the request sent in the
\* step that reads the line, and it is empty when no request is sent;
\* "CMD:device1:Turn on the light" gives "Turn on the light", which is left as
\* it is, and "12:30 meeting" gives "30 meeting".
C12_CleanCommandNormalizes ==
    [][/\ extRead' # extRead =>
             IF Normalized(extLine') = <<>>
             THEN llmTx' = llmTx
             ELSE /\ Len(llmTx') = Len(llmTx) + 1
                  /\ llmTx'[Len(llmTx')].data.delta = Normalized(extLine')
       /\ CleanCommand(CmdDeviceLight) = PlainLight
       /\ CleanCommand(PlainLight) = PlainLight
       /\ CleanCommand(Meeting) =
             <<"3", "0", " ", "m", "e", "e", "t", "i", "n", "g">>]_vars

\* "12:30 meeting" and "CMD:device1:Turn on the light" were read and sent on
\* as "30 meeting" and "Turn on the light".
C12_Witness ==
    /\ Len(llmTx) = 3
    /\ llmTx[2].data.delta =
          <<"3", "0", " ", "m", "e", "e", "t", "i", "n", "g">>
    /\ llmTx[3].data.delta = PlainLight
    /\ extSent = 2
    /\ extRx = <<>>

\* The line is blank, is "CMD:" alone, or ends at its first ':' ("CMD:"
\* aside): nothing is left of it as a command.
EmptyCommand(line) ==
    LET trimmed == Trim(line)
        unmarked == IF HasMarker(trimmed)
                    THEN Trim(SubSeq(trimmed, 5, Len(trimmed)))
                    ELSE trimmed
    IN  \/ unmarked = <<>>
        \/ HasColon(unmarked) /\ Trim(AfterFirstColon(unmarked)) = <<>>

\* C20: the step that reads an external line of which nothing is left as a
\* command takes the line and nothing else happens: no request to the LLM
\* peer, no collection started, nothing written to the external peer, the
\* session id unchanged; loop() is back at its start after delay(10).
C20_EmptyCommandNoEffect ==
    [][(extRead' # extRead /\ EmptyCommand(extLine')) =>
          /\ Len(extRx) > 0 => extRx' = Tail(extRx)
          /\ llmTx' = llmTx
          /\ extTx' = extTx
          /\ llmWorkId' = llmWorkId
          /\ pc' = "main"
          /\ UNCHANGED <<collector, segmenter, llmPort>>
          /\ now' >= now + PollMs]_vars

\* Two external lines were read and the only message the LLM peer ever got
\* is the setup request: nothing was left of either line as a command.
C20_Witness ==
    /\ extRead = 2
    /\ extSent = 2
    /\ llmTx = <<SetupRequest>>
    /\ extTx = <<>>
    /\ pc = "main"
    /\ llmWorkId = DefaultWorkId

\* ----------------------------------------- properties: the sentences
\* Where the first ". " of t starts (1-based), 0 when t has none.
FirstDelimiter(t) ==
    LET at == {i \in 1 .. (Len(t) - 1) : t[i] = "." /\ t[i + 1] = " "}
    IN  IF at = {} THEN 0 ELSE CHOOSE i \in at : \A j \in at : i <= j

\* t cut at each ". ", from left to right: every piece keeps its period and
\* loses the blank after it; the remainder comes last.
RECURSIVE Pieces(_)
Pieces(t) ==
    LET i == FirstDelimiter(t)
    IN  IF i = 0 THEN <<t>>
        ELSE <<SubSeq(t, 1, i)>> \o Pieces(SubSeq(t, i + 2, Len(t)))

\* The pieces trimmed, without those that are empty then.
RECURSIVE TrimmedNonEmpty(_)
TrimmedNonEmpty(ps) ==
    IF Len(ps) = 0 THEN <<>>
    ELSE (IF Trim(Head(ps)) = <<>> THEN <<>> ELSE <<Trim(Head(ps))>>)
         \o TrimmedNonEmpty(Tail(ps))

Units(t) == TrimmedNonEmpty(Pieces(t))

ThreeUnits ==
    <<<<"H", "i", " ", "t", "h", "e", "r", "e", ".">>,
      <<"H", "o", "w", " ", "a", "r", "e", " ", "y", "o", "u", ".">>,
      <<"F", "i", "n", "e", ".">>>>

\* C13: what sendSentences has written when it returns is, in order, the
\* trimmed non-empty pieces of the text cut at each ". "; while it runs it
\* has written the first of them; "Hi there. How are you. Fine." gives
\* "Hi there.", "How are you.", "Fine.", and a text without ". " gives the
\* trimmed text as its only unit.
C13_UnitsAreThePieces ==
    /\ pc = "sent" => extTx = Units(text)
    /\ pc = "emit" =>
          /\ Len(extTx) <= Len(Units(text))
          /\ extTx = SubSeq(Units(text), 1, Len(extTx))
    /\ (pc = "sent" /\ text = HiThere) => extTx = ThreeUnits
    /\ (pc = "sent" /\ FirstDelimiter(text) = 0 /\ Trim(text) # <<>>) =>
          extTx = <<Trim(text)>>

C13_Witness ==
    /\ pc = "sent"
    /\ text = HiThere
    /\ extTx = ThreeUnits

\* The units joined again, ". " between one and the next.
RECURSIVE Rejoined(_)
Rejoined(units) ==
    IF Len(units) = 0 THEN <<>>
    ELSE IF Len(units) = 1 THEN units[1]
    ELSE units[1] \o <<".", " ">> \o Rejoined(Tail(units))

\* C14, the same units: sendSentences run on the rejoined units it has
\* written writes the same units again.
C14_RejoinedGivesSameUnits ==
    pc = "sent" => SendSentences(Rejoined(extTx)) = extTx

\* C14, the same number of units: sendSentences run on the rejoined units it
\* has written writes as many units again; the last one is the same, and
\* each of the others comes back with the period of the separator after the
\* period it had kept.
C14_RejoinedGivesSameCount ==
    pc = "sent" =>
       LET again == SendSentences(Rejoined(extTx))
       IN  /\ Len(again) = Len(extTx)
           /\ \A i \in 1 .. Len(extTx) :
                 again[i] = IF i < Len(extTx) THEN extTx[i] \o <<".">>
                            ELSE extTx[i]

\* "Hi there. How are you. Fine." was written as three units; rejoined and
\* cut again they are "Hi there..", "How are you..", "Fine.".
C14_Witness ==
    /\ pc = "sent"
    /\ extTx = ThreeUnits
    /\ SendSentences(Rejoined(extTx)) =
          <<ThreeUnits[1] \o <<".">>, ThreeUnits[2] \o <<".">>, ThreeUnits[3]>>

\* ---------------------------------------------- properties: the cycles
\* C15: time never goes back; a step that writes to the external peer
\* writes one line and ends PacingMs later, the delay being part of it, so
\* that the next line, of the same response or of the next, is written at
\* least PacingMs after it; an iteration of sendSentences whose unit is empty
\* writes nothing and takes no time.
C15_WritesArePaced ==
    [][/\ now' >= now
       /\ extTx' # extTx =>
             /\ pc = "emit"
             /\ Len(extTx') = Len(extTx) + 1
             /\ SubSeq(extTx', 1, Len(extTx)) = extTx
             /\ now' = now + PacingMs
       /\ (pc = "emit" /\ extTx' = extTx) => now' = now]_vars

\* Two responses were written: "a. b.  ", which ends in blanks, a last unit
\* that is empty, as "a." and "b.", then "a. b" as "a." and "b".
C15_Witness ==
    /\ pc = "main"
    /\ extRead = 2
    /\ extTx = <<<<"a", ".">>, <<"b", ".">>, <<"a", ".">>, <<"b">>>>

\* --------------------------------- properties: framing in the collector
\* The line as the frame reader frames it: trimmed and cut at its first '{'.
Framed(line) ==
    LET trimmed == Trim(line)
        idx == IndexOfBrace(trimmed)
    IN  IF idx = -1 THEN <<>> ELSE SubSeq(trimmed, idx + 1, Len(trimmed))

RECURSIVE ConcatFramedDeltas(_)
ConcatFramedDeltas(lines) ==
    IF Len(lines) = 0 THEN <<>>
    ELSE DeltaOf(Framed(Head(lines))) \o ConcatFramedDeltas(Tail(lines))

\* C16: readFullResponse decodes every line from its first '{': its
\* accumulator is the concatenation of the deltas of the framed lines read
\* so far, a diagnostic prefix before an envelope changing nothing.
C16_CollectorFramesLines ==
    pc = "collect" => completeResponse = ConcatFramedDeltas(consumed)

\* The last n elements of a sequence.
LastOf(seq, n) == SubSeq(seq, Len(seq) - n + 1, Len(seq))

\* The inference requests sent so far.
InferenceRequestsSent ==
    Len(SelectSeq(llmTx, LAMBDA m : m.action = "inference"))

\* C17: an external line is read only by loop() between two cycles, the
\* first of the buffer (or, the buffer holding no whole line, the line
\* whose first piece waits), whole and one at a time, so that there are
\* never more requests than lines the external peer has sent; an inference
\* request is sent only in such a step, for the line just read, and starts
\* the collection; the collection ends by finish, inactivity or the overall
\* deadline and
\* hands its text to sendSentences; only sendSentences writes to the
\* external peer, and when it has returned all units of the text have been
\* written; only then is loop() back where it reads the next line.
C17_CyclesAreSequential ==
    [][/\ extRead' # extRead =>
             /\ pc = "main"
             /\ Available(extRx, extPart)
             /\ Len(extRx) > 0 =>
                   (extRx' = Tail(extRx) /\ extLine' = Head(extRx))
             /\ Len(extRx) = 0 => extLine' = extPart.line
             /\ extRead' = extRead + 1
       /\ InferenceRequestsSent' <= extSent'
       /\ llmTx' # llmTx =>
             /\ pc = "main" /\ pc' = "collect"
             /\ extRead' = extRead + 1
             /\ Len(llmTx') = Len(llmTx) + 1
             /\ SubSeq(llmTx', 1, Len(llmTx)) = llmTx
             /\ llmTx'[Len(llmTx')].action = "inference"
             /\ llmTx'[Len(llmTx')].data.delta = Normalized(extLine')
       /\ pc = "main" => pc' \in {"main", "collect"}
       /\ (pc = "main" /\ pc' = "collect") => llmTx' # llmTx
       /\ pc = "collect" => pc' \in {"collect", "emit"}
       /\ (pc = "collect" /\ pc' = "emit") =>
             /\ exitReason' \in {"finish", "inactivity", "overall"}
             /\ text' = completeResponse
       /\ pc = "emit" => pc' \in {"emit", "sent"}
       /\ pc = "sent" => pc' \in {"sent", "main"}
       /\ extTx' # extTx => pc = "emit"
       /\ pc = "sent" =>
             /\ Len(extTx) >= Len(Units(text))
             /\ LastOf(extTx, Len(Units(text))) = Units(text)]_vars

\* ---------------------------------------- properties: the requests
\* C18: every message to the LLM peer after the setup request is an
\* inference request with request_id "llm_001", object "llm.utf-8.stream",
\* index 0, finish true and the session id as work_id: the work_id of the
\* setup response after a success, "llm_work_id" after a failure; in the
\* step that sends it, its delta is the normalized text of the line read.
C18_InferenceRequestFields ==
    [][/\ \A i \in 2 .. Len(llmTx) :
             /\ llmTx[i].request_id = RequestId
             /\ llmTx[i].action = "inference"
             /\ llmTx[i].object = "llm.utf-8.stream"
             /\ llmTx[i].data.index = 0
             /\ llmTx[i].data.finish = TRUE
             /\ DOMAIN llmTx[i].data = {"delta", "index", "finish"}
             /\ llmTx[i].work_id = llmWorkId
             /\ llmTx[i].work_id = IF setupRet = "ok" THEN PeerWorkId
                                   ELSE DefaultWorkId
       /\ (Len(llmTx) >= 1 /\ Len(llmTx') > Len(llmTx)) =>
             /\ setupRet # "pending"
             /\ llmTx'[Len(llmTx')].data.delta = Normalized(extLine')
             /\ Normalized(extLine') # <<>>]_vars

\* C19: the lines that were waiting unread when the request of a cycle was
\* sent, left over from the setup exchange or from an earlier cycle, add
\* nothing to the text of that cycle and do not end its collection.
C19_OnlyOwnFrames ==
    pc \in {"collect", "emit", "sent"} =>
       \A i \in 1 .. Min(staleAtStart, Len(consumed)) :
           DeltaOf(consumed[i]) = <<>> /\ ~HasFinish(consumed[i])

====
